---- MODULE Spec2Model ----
(***************************************************************************)
(* Model of the snippet prompt of src/src/index.ts: the state cells held   *)
(* by useState, the keypress handler userHandler and the line buffer of    *)
(* the readline interface the handler reads and writes.                    *)
(*                                                                         *)
(* Strings are sequences of one-character strings.  activeFieldIndex and   *)
(* selectedOptionIndex are 0-based as in the source; sequences are 1-based *)
(* so an array access a[i] is written a[i + 1].                            *)
(***************************************************************************)
EXTENDS Integers, Sequences, FiniteSets, TLC

\* ------------------------------------------------------------------ bounds
MaxFields == 2
MaxLen == 2
MaxPresses == 3

Max(a, b) == IF a >= b THEN a ELSE b
Min(a, b) == IF a <= b THEN a ELSE b

\* ------------------------------------------------------------ configuration
Null == "null"

Str(s) == [isString |-> TRUE, str |-> s]
Pair(n, v) == [isString |-> FALSE, name |-> n, value |-> v]

\* Field descriptors (SnippetField): the characters of the field's key, an
\* optional label (message), an optional initial value, the required flag
\* and an optional list of options, each a bare string or a {name, value}
\* pair.  An absent label, initial value or options list is read by the code
\* through `|| fieldName`, `|| ""` and `|| []`; hasOptions tells a declared
\* list from an absent one.
TextFieldInit ==
    [name |-> <<"x">>, message |-> <<>>, required |-> FALSE,
     hasInitial |-> TRUE, initial |-> <<"a">>, hasOptions |-> FALSE, options |-> <<>>]
\* a required field declared with `options: []` and no initial value
TextFieldEmpty ==
    [name |-> <<"w">>, message |-> <<>>, required |-> TRUE,
     hasInitial |-> FALSE, initial |-> <<>>, hasOptions |-> TRUE, options |-> <<>>]
SelectField ==
    [name |-> <<"y">>, message |-> <<"m">>, required |-> TRUE,
     hasInitial |-> FALSE, initial |-> <<>>, hasOptions |-> TRUE,
     options |-> <<Str(<<"a">>), Pair(<<"a">>, <<"b">>), Pair(<<"b">>, <<"a", "b">>)>>]
SelectFieldInit ==
    [name |-> <<"z">>, message |-> <<"m">>, required |-> FALSE,
     hasInitial |-> TRUE, initial |-> <<"b">>, hasOptions |-> TRUE,
     options |-> <<Str(<<"a">>), Str(<<"b">>), Pair(<<"a">>, <<"b">>)>>]

FieldKinds == <<TextFieldInit, SelectField, SelectFieldInit, TextFieldEmpty>>

FieldName(i) == "f" \o ToString(i)

\* The configurations explored: FieldKinds cut into consecutive blocks of n
\* fields, for every n up to MaxFields.
Configs ==
    UNION {{SubSeq(FieldKinds, n * (b - 1) + 1, n * b) :
                b \in 1..(Len(FieldKinds) \div n)} : n \in 1..MaxFields}

\* config.validate: absent, a predicate that may return anything (true,
\* false, a message, the empty string, nothing, or a promise still pending
\* when the handler reads it), or the predicate that requires a value for the first field
ValidatorKinds == {"none", "any", "required"}

InvalidFallback == "Invalid values provided"
RequiredMessage == "Name is required"

VARIABLES
    fields,              \* config.fields, in Object.keys order
    template,            \* config.template
    validate,            \* config.validate
    status, errorMsg, values, activeFieldIndex,
    editingField, fieldInput, cursorPosition,
    selectingField, selectedOptionIndex,
    rl,                  \* the readline line buffer: [line, cursor]
    answer,              \* the values done() was called with, in order
    validateCall,        \* the call of validate made by the last key event, if any
    lastEvent,           \* the key processed last and the mode that handled it
    tabStart, tabRun,    \* history: the current run of Tab presses
    typed, plain,        \* history: text typed since the edit was entered
    presses              \* history: Up/Down presses since selection opened

vars == <<fields, template, validate, status, errorMsg, values, activeFieldIndex,
          editingField, fieldInput, cursorPosition, selectingField,
          selectedOptionIndex, rl, answer, validateCall, lastEvent,
          tabStart, tabRun, typed, plain, presses>>

config == <<fields, template, validate>>
cells == <<status, errorMsg, values, activeFieldIndex, editingField, fieldInput,
           cursorPosition, selectingField, selectedOptionIndex>>

\* ---------------------------------------------------------------- helpers
fieldNames == [i \in 1..Len(fields) |-> FieldName(i)]

FieldOf(name) == fields[CHOOSE i \in 1..Len(fields) : FieldName(i) = name]

normalizeOptions_NameAsValue(options) ==
    [i \in 1..Len(options) |->
        IF options[i].isString
        THEN [name |-> options[i].str, value |-> options[i].str]
        ELSE [name |-> options[i].name, value |-> options[i].name]]

normalizeOptions_ValueAsName(options) ==
    [i \in 1..Len(options) |->
        IF options[i].isString
        THEN [name |-> options[i].str, value |-> options[i].str]
        ELSE [name |-> options[i].value, value |-> options[i].value]]

normalizeOptions(options) ==
    [i \in 1..Len(options) |->
        IF options[i].isString
        THEN [name |-> options[i].str, value |-> options[i].str]
        ELSE [name |-> options[i].name, value |-> options[i].value]]

isSelectField_Declared(fieldName) == FieldOf(fieldName).hasOptions

isSelectField_Never(fieldName) == FALSE

isSelectField(fieldName) ==
    FieldOf(fieldName).hasOptions /\ Len(FieldOf(fieldName).options) > 0

findIndex_Last(options, v) ==
    IF \E i \in 1..Len(options) : options[i].value = v
    THEN (CHOOSE i \in 1..Len(options) :
              /\ options[i].value = v
              /\ \A j \in (i + 1)..Len(options) : options[j].value # v) - 1
    ELSE -1

\* options.findIndex(pred): the 0-based index of the first match, or -1
findIndex(options, v) ==
    IF \E i \in 1..Len(options) : options[i].value = v
    THEN (CHOOSE i \in 1..Len(options) :
              /\ options[i].value = v
              /\ \A j \in 1..(i - 1) : options[j].value # v) - 1
    ELSE -1

initialValues_Empty == [name \in {FieldName(i) : i \in 1..Len(fields)} |-> <<>>]

initialValues ==
    [name \in {FieldName(i) : i \in 1..Len(fields)} |->
        IF FieldOf(name).hasInitial THEN FieldOf(name).initial ELSE <<>>]

\* ------------------------------------------------------- the line buffer
\* The character keys pressed: one letter, different from the letter of the
\* declared initial values, so that typed and pre-filled text stay apart.
Chars == {"b"}
Keys == {"up", "down", "tab", "enter", "escape", "ctrl_s", "backspace", "left"} \cup Chars

insertString(r, s) ==
    IF r.cursor < Len(r.line)
    THEN [line |-> SubSeq(r.line, 1, r.cursor) \o s
                     \o SubSeq(r.line, r.cursor + 1, Len(r.line)),
          cursor |-> r.cursor + Len(s)]
    ELSE [line |-> r.line \o s, cursor |-> r.cursor + Len(s)]

\* What the readline interface does with a key before the handler runs.
ttyWrite(r, key) ==
    CASE key = "enter" -> [line |-> <<>>, cursor |-> 0]
      [] key = "backspace" ->
            IF r.cursor > 0
            THEN [line |-> SubSeq(r.line, 1, r.cursor - 1)
                             \o SubSeq(r.line, r.cursor + 1, Len(r.line)),
                  cursor |-> r.cursor - 1]
            ELSE r
      [] key = "left" -> [r EXCEPT !.cursor = Max(0, r.cursor - 1)]
      [] key \in Chars -> insertString(r, <<key>>)
      [] OTHER -> r

\* Keys the bounded line buffer can still take.
Accepts(key) == key \in Chars => Len(rl.line) < MaxLen

\* --------------------------------------------------------------- validate
\* The results config.validate can return for the value map v.
ValidateResults(v) ==
    CASE validate = "any" ->
            {[type |-> "boolean", bool |-> TRUE, str |-> ""],
             [type |-> "boolean", bool |-> FALSE, str |-> ""],
             [type |-> "string", bool |-> FALSE, str |-> "bad"],
             [type |-> "string", bool |-> FALSE, str |-> ""],
             [type |-> "undefined", bool |-> FALSE, str |-> ""],
             [type |-> "promise", bool |-> FALSE, str |-> ""]}
      [] validate = "required" ->
            IF v[FieldName(1)] = <<>>
            THEN {[type |-> "string", bool |-> FALSE, str |-> RequiredMessage]}
            ELSE {[type |-> "boolean", bool |-> TRUE, str |-> ""]}
      [] OTHER -> {}

Passes_NoPriorError(isValid) ==
    /\ errorMsg = Null
    /\ \/ isValid.type = "undefined"
       \/ isValid.type = "boolean" /\ isValid.bool

\* (validate?.(values) ?? true) === true
Passes(isValid) ==
    \/ isValid.type = "undefined"
    \/ isValid.type = "boolean" /\ isValid.bool

errorText_Fallback(isValid) == InvalidFallback

\* typeof isValid === "string" ? isValid : "Invalid values provided"
errorText(isValid) == IF isValid.type = "string" THEN isValid.str ELSE InvalidFallback

withValue_NoSpread(v, f, x) == [name \in {f} |-> x]

\* {...values, [f]: x}
withValue(v, f, x) == [v EXCEPT ![f] = x]

currentValueOf_Initial(fieldName) == initialValues[fieldName]

\* values[fieldName] || ""
currentValueOf(fieldName) == values[fieldName]

\* --------------------------------------------------------------- template
\* const placeholder = `{{${fieldName}}}`
placeholder(fieldName) == <<"{", "{">> \o fieldName \o <<"}", "}">>

\* Array.prototype.join("\n")
RECURSIVE join(_)
join(lines) ==
    IF lines = <<>> THEN <<>>
    ELSE IF Len(lines) = 1 THEN lines[1]
    ELSE lines[1] \o <<"\n">> \o join(Tail(lines))

\* A text field with the given key, label and initial value ("" for none).
TextField(name, message, initial) ==
    [name |-> name, message |-> message, required |-> FALSE,
     hasInitial |-> initial # <<>>, initial |-> initial,
     hasOptions |-> FALSE, options |-> <<>>]

\* The template a configuration of field kinds is explored with: one line
\* per field, holding the field's placeholder.
TemplateOf(fs) == join([i \in 1..Len(fs) |-> placeholder(fs[i].name)])

\* Configurations explored beside the blocks of field kinds: a template with
\* the fields it is rendered for.  A run of ordinary characters is written as one element
\* of the text; braces, "$" and regex metacharacters are elements of their
\* own.
HelloTemplate == <<"Hello ">> \o placeholder(<<"name">>) \o <<"!">>
HelloFields == <<TextField(<<"name">>, <<>>, <<"World">>)>>

\* a placeholder repeated, next to that of a select field
RepeatedTemplate ==
    placeholder(<<"x">>) \o <<"-">> \o placeholder(<<"x">>) \o <<" ">> \o placeholder(<<"y">>)
RepeatedFields == <<TextFieldInit, SelectField>>

\* unbalanced and doubled delimiters and the placeholder of an undeclared field
MalformedTemplate ==
    <<"{", "{", "x", "}", " ", "{", "x", "}", "}", " ", "{", "{", "x", " ">>
        \o placeholder(<<"q">>) \o <<" ", "{">> \o placeholder(<<"x">>) \o <<"}">>
MalformedFields == <<TextFieldInit>>

\* a key with regex metacharacters next to placeholders that differ from
\* its own in such a character only
MetaTemplate ==
    placeholder(<<"a", "x", "+", "b">>) \o placeholder(<<"a", ".", "+", "b">>)
        \o <<"{", "a", ".", "+", "b", "}">> \o placeholder(<<"a", ".", ".", "b">>)
MetaFields == <<TextField(<<"a", ".", "+", "b">>, <<>>, <<>>)>>

\* a value holding a replacement pattern of String.prototype.replace
DollarTemplate == placeholder(<<"p">>) \o <<"-">> \o placeholder(<<"p">>)
DollarFields == <<TextField(<<"p">>, <<>>, <<"$", "'">>)>>

\* a select field whose value, between the braces around its placeholder,
\* spells the placeholder of the field after it
NestedTemplate == <<"{">> \o placeholder(<<"p">>) \o <<"}">>
NestedFields ==
    <<[name |-> <<"p">>, message |-> <<>>, required |-> FALSE,
       hasInitial |-> TRUE, initial |-> <<"{", "q", "}">>, hasOptions |-> TRUE,
       options |-> <<Str(<<"{", "q", "}">>)>>],
      TextField(<<"q">>, <<>>, <<>>)>>

\* fields: {} with a template of plain text
EmptyTemplate == <<"This template has no field placeholders">>
EmptyFields == <<>>

\* two text fields and no option list, the first one required by validate
TextOnlyFields == <<TextFieldEmpty, TextFieldInit>>

RenderScenarios ==
    {[fields |-> HelloFields, template |-> HelloTemplate, validate |-> "none"],
     [fields |-> RepeatedFields, template |-> RepeatedTemplate, validate |-> "none"],
     [fields |-> MalformedFields, template |-> MalformedTemplate, validate |-> "any"],
     [fields |-> MetaFields, template |-> MetaTemplate, validate |-> "none"],
     [fields |-> DollarFields, template |-> DollarTemplate, validate |-> "none"],
     [fields |-> NestedFields, template |-> NestedTemplate, validate |-> "none"],
     [fields |-> EmptyFields, template |-> EmptyTemplate, validate |-> "none"],
     [fields |-> TextOnlyFields, template |-> TemplateOf(TextOnlyFields),
      validate |-> "required"]}

\* ------------------------------------------------------------------- Init
\* The state cells, the line buffer and the history before any key event.
Started ==
    /\ status = "idle"
    /\ errorMsg = Null
    /\ values = initialValues
    /\ activeFieldIndex = 0
    /\ editingField = Null
    /\ fieldInput = <<>>
    /\ cursorPosition = 0
    /\ selectingField = Null
    /\ selectedOptionIndex = 0
    /\ rl = [line |-> <<>>, cursor |-> 0]
    /\ answer = <<>>
    /\ validateCall = <<>>
    /\ lastEvent = [key |-> Null, mode |-> Null]
    /\ tabStart = 0
    /\ tabRun = 0
    /\ typed = <<>>
    /\ plain = FALSE
    /\ presses = <<>>

Init ==
    /\ fields \in Configs
    /\ template = TemplateOf(fields)
    /\ validate \in ValidatorKinds
    /\ Started

\* The prompt started on one of the renderer's configurations.
RenderInit ==
    /\ \E s \in RenderScenarios :
          fields = s.fields /\ template = s.template /\ validate = s.validate
    /\ Started

\* ---------------------------------------------------------------- actions
\* A key event is delivered while the prompt has not completed; the readline
\* interface handles the key first, then userHandler runs to its end.
Mode ==
    IF selectingField # Null THEN "selectingOption"
    ELSE IF editingField # Null THEN "editingText"
    ELSE "navigating"

\* The branch of the handler a key takes in the current mode: the keys a mode
\* does not name all take its last branch.
KeyLabel(key) ==
    CASE Mode = "navigating" /\ key \notin {"ctrl_s", "enter", "up", "down", "tab"} -> "other"
      [] Mode = "selectingOption" /\ key \notin {"enter", "escape", "up", "down"} -> "other"
      [] key \in Chars -> "char"
      [] OTHER -> key

Deliver(key) ==
    /\ answer = <<>>
    /\ Accepts(key)
    /\ lastEvent' = [key |-> KeyLabel(key), mode |-> Mode]

NoValidate == validateCall' = <<>>

NoTabRun == tabRun' = 0 /\ tabStart' = 0
NoTyping == typed' = <<>> /\ plain' = FALSE
NoPresses == presses' = <<>>

\* The history of a selection records runs of at most MaxPresses Up/Down
\* presses with no other key in between; longer or mixed runs are untracked.
Untracked == <<"other">>
Pressed(key) ==
    IF presses = Untracked \/ Len(presses) >= MaxPresses
    THEN Untracked
    ELSE Append(presses, key)

\* Number.NaN as the value of a numeric cell: an integer kept apart from
\* every index, which arithmetic hands on unchanged.
NaN == -1000

prevOption_NoClamp(i) == i - 1

\* Math.max(0, selectedOptionIndex - 1)
prevOption(i) == Max(0, i - 1)

nextOption_NoClamp(i, n) == i + 1

\* Math.min(options.length - 1, selectedOptionIndex + 1)
nextOption(i, n) == Min(n - 1, i + 1)

prevField_Wrap(i) == IF i = 0 THEN Len(fields) - 1 ELSE i - 1

\* Math.max(0, activeFieldIndex - 1)
prevField(i) == IF i = NaN THEN NaN ELSE Max(0, i - 1)

nextField_NoClamp(i, n) == i + 1

\* Math.min(fieldNames.length - 1, activeFieldIndex + 1)
nextField(i, n) == IF i = NaN THEN NaN ELSE Min(n - 1, i + 1)

tabField_Clamp(i, n) == Min(n - 1, i + 1)

\* (activeFieldIndex + 1) % fieldNames.length: the remainder by zero is NaN
tabField(i, n) == IF i = NaN \/ n = 0 THEN NaN ELSE (i + 1) % n

activeFieldName_First == fieldNames[1]

\* fieldNames[activeFieldIndex], undefined (Null) outside the array
activeFieldName ==
    IF activeFieldIndex + 1 \in 1..Len(fieldNames)
    THEN fieldNames[activeFieldIndex + 1]
    ELSE Null

\* selecting, Enter: commit the option at selectedOptionIndex
SelectEnter ==
    /\ selectingField # Null
    /\ Deliver("enter")
    /\ LET options == normalizeOptions(FieldOf(selectingField).options)
       IN  values' = IF selectedOptionIndex + 1 \in 1..Len(options)
                     THEN withValue(values, selectingField,
                                    options[selectedOptionIndex + 1].value)
                     ELSE values
    /\ selectingField' = Null
    /\ selectedOptionIndex' = 0
    /\ rl' = ttyWrite(rl, "enter")
    /\ NoTabRun /\ NoTyping /\ NoPresses /\ NoValidate
    /\ UNCHANGED <<config, status, errorMsg, activeFieldIndex, editingField,
                   fieldInput, cursorPosition, answer>>

SelectEscape_Commits ==
    /\ selectingField # Null
    /\ Deliver("escape")
    /\ LET options == normalizeOptions(FieldOf(selectingField).options)
       IN  values' = IF selectedOptionIndex + 1 \in 1..Len(options)
                     THEN withValue(values, selectingField,
                                    options[selectedOptionIndex + 1].value)
                     ELSE values
    /\ selectingField' = Null
    /\ selectedOptionIndex' = 0
    /\ rl' = ttyWrite(rl, "escape")
    /\ NoTabRun /\ NoTyping /\ NoPresses /\ NoValidate
    /\ UNCHANGED <<config, status, errorMsg, activeFieldIndex, editingField,
                   fieldInput, cursorPosition, answer>>

SelectEscape_ClearsError ==
    /\ selectingField # Null
    /\ Deliver("escape")
    /\ selectingField' = Null
    /\ selectedOptionIndex' = 0
    /\ errorMsg' = Null
    /\ rl' = ttyWrite(rl, "escape")
    /\ NoTabRun /\ NoTyping /\ NoPresses /\ NoValidate
    /\ UNCHANGED <<config, status, values, activeFieldIndex, editingField,
                   fieldInput, cursorPosition, answer>>

\* selecting, Escape: cancel the selection
SelectEscape ==
    /\ selectingField # Null
    /\ Deliver("escape")
    /\ selectingField' = Null
    /\ selectedOptionIndex' = 0
    /\ rl' = ttyWrite(rl, "escape")
    /\ NoTabRun /\ NoTyping /\ NoPresses /\ NoValidate
    /\ UNCHANGED <<config, status, errorMsg, values, activeFieldIndex, editingField,
                   fieldInput, cursorPosition, answer>>

SelectUp ==
    /\ selectingField # Null
    /\ Deliver("up")
    /\ selectedOptionIndex' = prevOption(selectedOptionIndex)
    /\ rl' = ttyWrite(rl, "up")
    /\ presses' = Pressed("up")
    /\ NoTabRun /\ NoTyping /\ NoValidate
    /\ UNCHANGED <<config, status, errorMsg, values, activeFieldIndex, editingField,
                   fieldInput, cursorPosition, selectingField, answer>>

SelectDown ==
    /\ selectingField # Null
    /\ Deliver("down")
    /\ LET options == normalizeOptions(FieldOf(selectingField).options)
       IN  selectedOptionIndex' = nextOption(selectedOptionIndex, Len(options))
    /\ rl' = ttyWrite(rl, "down")
    /\ presses' = Pressed("down")
    /\ NoTabRun /\ NoTyping /\ NoValidate
    /\ UNCHANGED <<config, status, errorMsg, values, activeFieldIndex, editingField,
                   fieldInput, cursorPosition, selectingField, answer>>

\* selecting, any other key: the handler changes nothing
SelectOther ==
    /\ selectingField # Null
    /\ \E key \in Keys \ {"enter", "escape", "up", "down"} :
          /\ Deliver(key)
          /\ rl' = ttyWrite(rl, key)
    /\ presses' = Untracked
    /\ NoTabRun /\ NoTyping /\ NoValidate
    /\ UNCHANGED <<config, cells, answer>>

EditEnter_SavesLine ==
    /\ selectingField = Null
    /\ editingField # Null
    /\ Deliver("enter")
    /\ values' = withValue(values, editingField, ttyWrite(rl, "enter").line)
    /\ editingField' = Null
    /\ fieldInput' = <<>>
    /\ cursorPosition' = 0
    /\ rl' = insertString(ttyWrite(rl, "enter"), <<>>)
    /\ NoTabRun /\ NoTyping /\ NoPresses /\ NoValidate
    /\ UNCHANGED <<config, status, errorMsg, activeFieldIndex, selectingField,
                   selectedOptionIndex, answer>>

\* editing, Enter: save fieldInput as the field's value
EditEnter ==
    /\ selectingField = Null
    /\ editingField # Null
    /\ Deliver("enter")
    /\ values' = withValue(values, editingField, fieldInput)
    /\ editingField' = Null
    /\ fieldInput' = <<>>
    /\ cursorPosition' = 0
    /\ rl' = insertString(ttyWrite(rl, "enter"), <<>>)
    /\ NoTabRun /\ NoTyping /\ NoPresses /\ NoValidate
    /\ UNCHANGED <<config, status, errorMsg, activeFieldIndex, selectingField,
                   selectedOptionIndex, answer>>

EditEscape_Saves ==
    /\ selectingField = Null
    /\ editingField # Null
    /\ Deliver("escape")
    /\ values' = withValue(values, editingField, fieldInput)
    /\ editingField' = Null
    /\ fieldInput' = <<>>
    /\ cursorPosition' = 0
    /\ rl' = insertString(ttyWrite(rl, "escape"), <<>>)
    /\ NoTabRun /\ NoTyping /\ NoPresses /\ NoValidate
    /\ UNCHANGED <<config, status, errorMsg, activeFieldIndex, selectingField,
                   selectedOptionIndex, answer>>

\* editing, Escape: cancel the edit
EditEscape ==
    /\ selectingField = Null
    /\ editingField # Null
    /\ Deliver("escape")
    /\ editingField' = Null
    /\ fieldInput' = <<>>
    /\ cursorPosition' = 0
    /\ rl' = insertString(ttyWrite(rl, "escape"), <<>>)
    /\ NoTabRun /\ NoTyping /\ NoPresses /\ NoValidate
    /\ UNCHANGED <<config, status, errorMsg, values, activeFieldIndex, selectingField,
                   selectedOptionIndex, answer>>

\* editing, any other key: copy the line buffer into fieldInput
EditOther ==
    /\ selectingField = Null
    /\ editingField # Null
    /\ \E key \in Keys \ {"enter", "escape"} :
          /\ Deliver(key)
          /\ rl' = ttyWrite(rl, key)
          /\ IF plain /\ key \in Chars /\ rl.cursor >= Len(rl.line)
             THEN typed' = Append(typed, key) /\ plain' = TRUE
             ELSE NoTyping
    /\ fieldInput' = rl'.line
    /\ cursorPosition' = Len(rl'.line)
    /\ NoTabRun /\ NoPresses /\ NoValidate
    /\ UNCHANGED <<config, status, errorMsg, values, activeFieldIndex, editingField,
                   selectingField, selectedOptionIndex, answer>>

Navigating_NotSelecting == selectingField = Null

Navigating == selectingField = Null /\ editingField = Null

NavSubmit_AwaitsPromise ==
    /\ Navigating
    /\ Deliver("ctrl_s")
    /\ rl' = ttyWrite(rl, "ctrl_s")
    /\ \/ /\ validate = "none"
          /\ status' = "done"
          /\ answer' = Append(answer, values)
          /\ validateCall' = <<>>
          /\ UNCHANGED errorMsg
       \/ /\ validate # "none"
          /\ \E isValid \in ValidateResults(values) :
                /\ validateCall' = <<[arg |-> values, ret |-> isValid]>>
                /\ IF isValid.type = "promise"
                   THEN /\ status' = "loading"
                        /\ UNCHANGED <<answer, errorMsg>>
                   ELSE IF Passes(isValid)
                   THEN /\ status' = "done"
                        /\ answer' = Append(answer, values)
                        /\ UNCHANGED errorMsg
                   ELSE /\ errorMsg' = errorText(isValid)
                        /\ status' = "idle"
                        /\ UNCHANGED answer
    /\ NoTabRun /\ NoTyping /\ NoPresses
    /\ UNCHANGED <<config, values, activeFieldIndex, editingField, fieldInput,
                   cursorPosition, selectingField, selectedOptionIndex>>

NavSubmit_RequiredEnforced ==
    /\ Navigating
    /\ Deliver("ctrl_s")
    /\ rl' = ttyWrite(rl, "ctrl_s")
    /\ \/ /\ validate = "none"
          /\ validateCall' = <<>>
          /\ IF \E i \in 1..Len(fields) :
                    fields[i].required /\ values[FieldName(i)] = <<>>
             THEN /\ errorMsg' = InvalidFallback
                  /\ status' = "idle"
                  /\ UNCHANGED answer
             ELSE /\ status' = "done"
                  /\ answer' = Append(answer, values)
                  /\ UNCHANGED errorMsg
       \/ /\ validate # "none"
          /\ \E isValid \in ValidateResults(values) :
                /\ validateCall' = <<[arg |-> values, ret |-> isValid]>>
                /\ IF Passes(isValid)
                   THEN /\ status' = "done"
                        /\ answer' = Append(answer, values)
                        /\ UNCHANGED errorMsg
                   ELSE /\ errorMsg' = errorText(isValid)
                        /\ status' = "idle"
                        /\ UNCHANGED answer
    /\ NoTabRun /\ NoTyping /\ NoPresses
    /\ UNCHANGED <<config, values, activeFieldIndex, editingField, fieldInput,
                   cursorPosition, selectingField, selectedOptionIndex>>

NavSubmit_InitialValues ==
    /\ Navigating
    /\ Deliver("ctrl_s")
    /\ rl' = ttyWrite(rl, "ctrl_s")
    /\ \/ /\ validate = "none"
          /\ status' = "done"
          /\ answer' = Append(answer, initialValues)
          /\ validateCall' = <<>>
          /\ UNCHANGED errorMsg
       \/ /\ validate # "none"
          /\ \E isValid \in ValidateResults(values) :
                /\ validateCall' = <<[arg |-> values, ret |-> isValid]>>
                /\ IF Passes(isValid)
                   THEN /\ status' = "done"
                        /\ answer' = Append(answer, initialValues)
                        /\ UNCHANGED errorMsg
                   ELSE /\ errorMsg' = errorText(isValid)
                        /\ status' = "idle"
                        /\ UNCHANGED answer
    /\ NoTabRun /\ NoTyping /\ NoPresses
    /\ UNCHANGED <<config, values, activeFieldIndex, editingField, fieldInput,
                   cursorPosition, selectingField, selectedOptionIndex>>

\* navigating, Ctrl+S: validate the values and complete or report the error
NavSubmit ==
    /\ Navigating
    /\ Deliver("ctrl_s")
    /\ rl' = ttyWrite(rl, "ctrl_s")
    /\ \/ /\ validate = "none"
          /\ status' = "done"
          /\ answer' = Append(answer, values)
          /\ validateCall' = <<>>
          /\ UNCHANGED errorMsg
       \/ /\ validate # "none"
          /\ \E isValid \in ValidateResults(values) :
                /\ validateCall' = <<[arg |-> values, ret |-> isValid]>>
                /\ IF Passes(isValid)
                   THEN /\ status' = "done"
                        /\ answer' = Append(answer, values)
                        /\ UNCHANGED errorMsg
                   ELSE /\ errorMsg' = errorText(isValid)
                        /\ status' = "idle"
                        /\ UNCHANGED answer
    /\ NoTabRun /\ NoTyping /\ NoPresses
    /\ UNCHANGED <<config, values, activeFieldIndex, editingField, fieldInput,
                   cursorPosition, selectingField, selectedOptionIndex>>

\* navigating, Enter: open the options of a select field or start editing
NavEnter ==
    /\ Navigating
    /\ Deliver("enter")
    /\ IF activeFieldName # Null
       THEN LET fieldName == activeFieldName
                options == normalizeOptions(FieldOf(fieldName).options)
                currentValue == currentValueOf(fieldName)
                currentIndex == findIndex(options, currentValue)
            IN  IF isSelectField(fieldName)
                THEN /\ selectingField' = fieldName
                     /\ selectedOptionIndex' = IF currentIndex >= 0 THEN currentIndex ELSE 0
                     /\ rl' = ttyWrite(rl, "enter")
                     /\ NoTyping
                     /\ UNCHANGED <<editingField, fieldInput, cursorPosition>>
                ELSE /\ editingField' = fieldName
                     /\ fieldInput' = currentValue
                     /\ cursorPosition' = Len(currentValue)
                     /\ rl' = insertString([ttyWrite(rl, "enter") EXCEPT !.line = <<>>],
                                           currentValue)
                     /\ typed' = <<>> /\ plain' = TRUE
                     /\ UNCHANGED <<selectingField, selectedOptionIndex>>
       ELSE /\ rl' = ttyWrite(rl, "enter")
            /\ NoTyping
            /\ UNCHANGED <<editingField, fieldInput, cursorPosition, selectingField,
                           selectedOptionIndex>>
    /\ NoTabRun /\ NoPresses /\ NoValidate
    /\ UNCHANGED <<config, status, errorMsg, values, activeFieldIndex, answer>>

NavUp ==
    /\ Navigating
    /\ Deliver("up")
    /\ activeFieldIndex' = prevField(activeFieldIndex)
    /\ rl' = ttyWrite(rl, "up")
    /\ NoTabRun /\ NoTyping /\ NoPresses /\ NoValidate
    /\ UNCHANGED <<config, status, errorMsg, values, editingField, fieldInput,
                   cursorPosition, selectingField, selectedOptionIndex, answer>>

NavDown ==
    /\ Navigating
    /\ Deliver("down")
    /\ activeFieldIndex' = nextField(activeFieldIndex, Len(fieldNames))
    /\ rl' = ttyWrite(rl, "down")
    /\ NoTabRun /\ NoTyping /\ NoPresses /\ NoValidate
    /\ UNCHANGED <<config, status, errorMsg, values, editingField, fieldInput,
                   cursorPosition, selectingField, selectedOptionIndex, answer>>

\* navigating, Tab: move to the next field
NavTab ==
    /\ Navigating
    /\ Deliver("tab")
    /\ activeFieldIndex' = tabField(activeFieldIndex, Len(fieldNames))
    /\ rl' = ttyWrite(rl, "tab")
    /\ IF tabRun = 0 \/ tabRun >= Len(fieldNames)
       THEN tabStart' = activeFieldIndex /\ tabRun' = 1
       ELSE tabStart' = tabStart /\ tabRun' = tabRun + 1
    /\ NoTyping /\ NoPresses /\ NoValidate
    /\ UNCHANGED <<config, status, errorMsg, values, editingField, fieldInput,
                   cursorPosition, selectingField, selectedOptionIndex, answer>>

\* navigating, any other key: the handler changes nothing
NavOther ==
    /\ Navigating
    /\ \E key \in Keys \ {"ctrl_s", "enter", "up", "down", "tab"} :
          /\ Deliver(key)
          /\ rl' = ttyWrite(rl, key)
    /\ NoTabRun /\ NoTyping /\ NoPresses /\ NoValidate
    /\ UNCHANGED <<config, cells, answer>>

\* userHandler: one key event, by the branch of the handler that takes it
userHandler ==
    \/ SelectEnter \/ SelectEscape \/ SelectUp \/ SelectDown \/ SelectOther
    \/ EditEnter \/ EditEscape \/ EditOther
    \/ NavSubmit \/ NavEnter \/ NavUp \/ NavDown \/ NavTab \/ NavOther

Next == userHandler

Spec == Init /\ [][Next]_vars

RenderSpec == RenderInit /\ [][Next]_vars

TypeOK ==
    /\ status \in {"idle", "loading", "done"}
    /\ activeFieldIndex \in Int
    /\ selectedOptionIndex \in Int
    /\ Len(answer) <= 1

\* ------------------------------------------------------------------ frame
\* Text is a sequence of characters; an ANSI escape sequence is one element.
Inverse == "ESC[7m"
InverseOff == "ESC[27m"
Dim == "ESC[2m"
DimOff == "ESC[22m"

\* The default theme: each style function as the text it puts before and
\* after its argument.
snippetTheme ==
    [field |-> [pre |-> <<>>, post |-> <<>>],
     activeField |-> [pre |-> <<Inverse>>, post |-> <<InverseOff>>],
     placeholder |-> [pre |-> <<Dim>>, post |-> <<DimOff>>],
     activePlaceholder |-> [pre |-> <<Inverse, Dim>>, post |-> <<DimOff, InverseOff>>]]

\* A theme passed as config.theme that overrides the four styles with
\* markers of its own.
customTheme ==
    [field |-> [pre |-> <<"<f>">>, post |-> <<"</f>">>],
     activeField |-> [pre |-> <<"<af>">>, post |-> <<"</af>">>],
     placeholder |-> [pre |-> <<"<p>">>, post |-> <<"</p>">>],
     activePlaceholder |-> [pre |-> <<"<ap>">>, post |-> <<"</ap>">>]]

\* makeTheme(snippetTheme, config.theme)
Themes == {snippetTheme, customTheme}

\* theme.style[name](text)
style(theme, name, text) == theme[name].pre \o text \o theme[name].post

\* String.prototype.slice(from, to) for indices that are not negative
slice(str, from, to) == SubSeq(str, Min(from, Len(str)) + 1, Min(to, Len(str)))

\* const value = editingField === fieldName ? fieldInput : values[fieldName] || ""
valueOf(fieldName) == IF editingField = fieldName THEN fieldInput ELSE values[fieldName]

isActive_First(index) == index = 0 /\ editingField = Null /\ selectingField = Null

\* index === activeFieldIndex && !editingField && !selectingField
isActive(index) == index = activeFieldIndex /\ editingField = Null /\ selectingField = Null

\* field?.message || fieldName
placeholderText(index) ==
    IF fields[index + 1].message # <<>> THEN fields[index + 1].message
    ELSE fields[index + 1].name

\* The display fragment of the field at index (0-based), as renderSnippet
\* computes it inside its loop.
displayValue(theme, index) ==
    LET fieldName == fieldNames[index + 1]
        value == valueOf(fieldName)
        isSelecting == selectingField = fieldName
        isEditing == editingField = fieldName
    IN  IF value # <<>>
        THEN IF isEditing
             THEN LET beforeCursor == slice(value, 0, cursorPosition)
                      sliced == slice(value, cursorPosition, cursorPosition + 1)
                      atCursor == IF sliced # <<>> THEN sliced ELSE <<" ">>
                      afterCursor == slice(value, cursorPosition + 1, Len(value))
                  IN  beforeCursor \o <<Inverse>> \o atCursor \o <<InverseOff>>
                        \o afterCursor
             ELSE IF isSelecting
             THEN <<Inverse>> \o value \o <<InverseOff>>
             ELSE IF isActive(index) THEN style(theme, "activeField", value)
                  ELSE style(theme, "field", value)
        ELSE IF isEditing
             THEN <<Inverse, " ", InverseOff>>
             ELSE IF isSelecting
             THEN <<Inverse, Dim>> \o placeholderText(index) \o <<DimOff, InverseOff>>
             ELSE IF isActive(index)
                  THEN style(theme, "activePlaceholder", placeholderText(index))
                  ELSE style(theme, "placeholder", placeholderText(index))

\* The characters the character class /[.*+?^${}()|[\]\\]/ matches.
RegexSpecials == {".", "*", "+", "?", "^", "$", "{", "}", "(", ")", "|", "[", "]", "\\"}

escapeSource_None(str) == str

\* placeholder.replace(/[.*+?^${}()|[\]\\]/g, "\\$&"): a backslash in front
\* of every special character
RECURSIVE escapeSource(_)
escapeSource(str) ==
    IF str = <<>> THEN <<>>
    ELSE (IF Head(str) \in RegexSpecials THEN <<"\\", Head(str)>> ELSE <<Head(str)>>)
            \o escapeSource(Tail(str))

\* new RegExp(source, "g"): the pattern as a sequence of atoms.  A backslash
\* makes the next character a literal, an unescaped "." matches any
\* character but a line break, every other character matches itself.
RECURSIVE RegExpOf(_)
RegExpOf(source) ==
    IF source = <<>> THEN <<>>
    ELSE IF Head(source) = "\\" /\ Len(source) >= 2
    THEN <<[any |-> FALSE, ch |-> source[2]]>> \o RegExpOf(Tail(Tail(source)))
    ELSE IF Head(source) = "."
    THEN <<[any |-> TRUE, ch |-> "."]>> \o RegExpOf(Tail(source))
    ELSE <<[any |-> FALSE, ch |-> Head(source)]>> \o RegExpOf(Tail(source))

\* The pattern matches the text at position i (1-based).
matchAt(text, re, i) ==
    /\ i + Len(re) - 1 <= Len(text)
    /\ \A k \in 1..Len(re) :
          IF re[k].any THEN text[i + k - 1] # "\n" ELSE text[i + k - 1] = re[k].ch

\* The grave accent (U+0060) as an element of a text.
GraveAccent == "U+0060"

\* GetSubstitution of String.prototype.replace for a pattern without capture
\* groups: "$$" is "$", "$&" the match, "$`" the text before the match, "$'"
\* the text after it; any other "$" is literal.
RECURSIVE getSubstitution(_, _, _, _)
getSubstitution(replacement, text, position, matchLength) ==
    IF replacement = <<>> THEN <<>>
    ELSE IF Head(replacement) = "$" /\ Len(replacement) >= 2
                /\ replacement[2] \in {"$", "&", GraveAccent, "'"}
    THEN (CASE replacement[2] = "$" -> <<"$">>
            [] replacement[2] = "&" -> SubSeq(text, position, position + matchLength - 1)
            [] replacement[2] = GraveAccent -> SubSeq(text, 1, position - 1)
            [] replacement[2] = "'" -> SubSeq(text, position + matchLength, Len(text)))
            \o getSubstitution(Tail(Tail(replacement)), text, position, matchLength)
    ELSE <<Head(replacement)>>
            \o getSubstitution(Tail(replacement), text, position, matchLength)

\* The scan of String.prototype.replace with a global pattern, from position
\* i of the text: matches are taken leftmost and do not overlap.
RECURSIVE replaceFrom(_, _, _, _)
replaceFrom(text, re, replacement, i) ==
    IF i > Len(text) THEN <<>>
    ELSE IF matchAt(text, re, i)
    THEN getSubstitution(replacement, text, i, Len(re))
            \o replaceFrom(text, re, replacement, i + Len(re))
    ELSE <<text[i]>> \o replaceFrom(text, re, replacement, i + 1)

\* rendered.replace(new RegExp(<escaped placeholder>, "g"), displayValue) for
\* the field at index
replaceField(theme, rendered, index) ==
    replaceFrom(rendered, RegExpOf(escapeSource(placeholder(fields[index + 1].name))),
                displayValue(theme, index), 1)

\* fieldNames.forEach from index on, applied to the text rendered so far.
RECURSIVE renderFrom(_, _, _)
renderFrom(theme, rendered, index) ==
    IF index >= Len(fieldNames) THEN rendered
    ELSE renderFrom(theme, replaceField(theme, rendered, index), index + 1)

renderSnippet(theme) == renderFrom(theme, template, 0)

\* The marker in front of the selected option (U+276F in the source).
Pointer == ">"

\* The lines of renderSelectOptions, before they are joined.
optionLines ==
    IF selectingField = Null THEN <<>>
    ELSE LET options == normalizeOptions(FieldOf(selectingField).options)
         IN  [k \in 1..Len(options) |->
                 IF k - 1 = selectedOptionIndex
                 THEN <<Pointer, " ", Inverse>> \o options[k].name \o <<InverseOff>>
                 ELSE <<" ", " ">> \o options[k].name]

renderSelectOptions == join(optionLines)

\* The error line of the frame: theme.style.error(errorMsg) when errorMsg is
\* set and not empty, no line otherwise.
error == IF errorMsg # Null /\ errorMsg # "" THEN <<"style.error", errorMsg>> ELSE <<>>

\* ----------------------------------------------------------------- claims
fieldCount == Len(fieldNames)

\* The key of the step just taken, read in the pre-state's mode.
KeyIn(mode, key) == Mode = mode /\ lastEvent' = [key |-> key, mode |-> mode]

\* C1: with at least one field, activeIndex stays within [0, fieldCount - 1]
\* in every reachable state, whatever keys were processed in whatever mode.
C1_ActiveIndexInRange ==
    fieldCount >= 1 => (0 <= activeFieldIndex /\ activeFieldIndex < fieldCount)

\* Down has just been handled in navigating mode and the focus is on the last
\* of MaxFields fields.
C1_Witness ==
    /\ fieldCount = MaxFields
    /\ lastEvent = [key |-> "down", mode |-> "navigating"]
    /\ activeFieldIndex = fieldCount - 1

\* C2: in navigating mode Up moves the focus one field back and Down one
\* field forward, except that Up on the first field and Down on the last
\* field leave activeIndex where it is (no wraparound).
C2_ArrowsClamp ==
    [][/\ KeyIn("navigating", "up") =>
            activeFieldIndex' = IF activeFieldIndex = 0 THEN 0 ELSE activeFieldIndex - 1
       /\ KeyIn("navigating", "down") =>
            activeFieldIndex' = IF activeFieldIndex = fieldCount - 1
                                THEN fieldCount - 1 ELSE activeFieldIndex + 1]_vars

\* Up has just been handled in navigating mode with several fields and the
\* focus is on the first one.
C2_Witness ==
    /\ fieldCount >= 2
    /\ lastEvent = [key |-> "up", mode |-> "navigating"]
    /\ activeFieldIndex = 0

\* C3: in navigating mode Tab moves to the next field and from the last field
\* to the first; a run of exactly fieldCount Tab presses ends on the field it
\* started from.
C3_TabWraps ==
    [][/\ KeyIn("navigating", "tab") =>
            activeFieldIndex' = IF activeFieldIndex = fieldCount - 1
                                THEN 0 ELSE activeFieldIndex + 1
       /\ tabRun' = fieldCount => activeFieldIndex' = tabStart']_vars

\* A run of fieldCount Tab presses over several fields, started away from
\* the first field, has just ended.
C3_Witness ==
    /\ fieldCount >= 2
    /\ tabRun = fieldCount
    /\ tabStart > 0
    /\ lastEvent = [key |-> "tab", mode |-> "navigating"]

\* C4: editingField and selectingField are never both set, and the one that
\* is set names the field at activeIndex.
C4_ModeAgreesWithActiveField ==
    /\ ~(editingField # Null /\ selectingField # Null)
    /\ editingField # Null =>
          /\ activeFieldIndex + 1 \in 1..fieldCount
          /\ editingField = fieldNames[activeFieldIndex + 1]
    /\ selectingField # Null =>
          /\ activeFieldIndex + 1 \in 1..fieldCount
          /\ selectingField = fieldNames[activeFieldIndex + 1]

\* A field other than the first is being edited after a key was typed.
C4_Witness ==
    /\ editingField # Null
    /\ activeFieldIndex > 0
    /\ lastEvent = [key |-> "char", mode |-> "editingText"]

\* The options of a field as (name, value) pairs, from its declaration.
OptionsOf(f) == normalizeOptions(FieldOf(f).options)

\* C5: for a text field with committed value v, Enter, then typing t at the
\* end of the line, then Enter stores v followed by t as the field's value,
\* returns to navigating and clears the edit buffer and the cursor.
C5_EditCommitsSeedPlusTyped ==
    [][(KeyIn("editingText", "enter") /\ plain) =>
          /\ values' = [values EXCEPT ![editingField] = values[editingField] \o typed]
          /\ editingField' = Null /\ selectingField' = Null
          /\ fieldInput' = <<>>
          /\ cursorPosition' = 0]_vars

\* An edit of a field declared with an initial value has just been saved and
\* the field holds the initial value followed by a typed character.
C5_Witness ==
    /\ lastEvent = [key |-> "enter", mode |-> "editingText"]
    /\ Mode = "navigating"
    /\ activeFieldName # Null
    /\ FieldOf(activeFieldName).hasInitial
    /\ \E c \in Chars :
          values[activeFieldName] = Append(FieldOf(activeFieldName).initial, c)

\* C6: Escape while editing returns to navigating and changes no entry of
\* the Value Map, whatever was typed during the edit.
C6_EditEscapeKeepsValues ==
    [][KeyIn("editingText", "escape") =>
          /\ values' = values
          /\ editingField' = Null /\ selectingField' = Null]_vars

\* An edit has just been cancelled while the line buffer held text that
\* differs from the field's value.
C6_Witness ==
    /\ lastEvent = [key |-> "escape", mode |-> "editingText"]
    /\ Mode = "navigating"
    /\ rl.line # <<>>
    /\ rl.line # values[activeFieldName]

\* The position at which a selection opens: that of the first option whose
\* stored value is v, or 0 when there is none.
OpeningIndex(options, v) ==
    IF \A i \in 1..Len(options) : options[i].value # v
    THEN 0
    ELSE CHOOSE k \in 0..(Len(options) - 1) :
             /\ options[k + 1].value = v
             /\ \A j \in 0..(k - 1) : options[j + 1].value # v

\* The index i moved by a sequence of Up/Down presses, kept within [0, n-1].
RECURSIVE Moved(_, _, _)
Moved(i, n, ps) ==
    IF ps = <<>> THEN i
    ELSE LET step == IF Head(ps) = "up" THEN i - 1 ELSE i + 1
             kept == IF step < 0 THEN 0 ELSE IF step > n - 1 THEN n - 1 ELSE step
         IN  Moved(kept, n, Tail(ps))

\* C7: for a select field, Enter, any Up/Down presses, Enter stores the value
\* of the option reached from the opening index by those presses with
\* clamping to [0, n-1], and returns to navigating.
C7_SelectCommitsReachedOption ==
    [][(KeyIn("selectingOption", "enter") /\ presses # Untracked) =>
          LET options == OptionsOf(selectingField)
              i == Moved(OpeningIndex(options, values[selectingField]),
                         Len(options), presses)
          IN  /\ values' = [values EXCEPT ![selectingField] = options[i + 1].value]
              /\ editingField' = Null /\ selectingField' = Null]_vars

\* A selection has just been committed and the field holds the value of its
\* last option, which differs from its initial value.
C7_Witness ==
    /\ lastEvent = [key |-> "enter", mode |-> "selectingOption"]
    /\ Mode = "navigating"
    /\ LET options == OptionsOf(activeFieldName)
       IN  /\ values[activeFieldName] = options[Len(options)].value
           /\ values[activeFieldName] # initialValues[activeFieldName]

\* C8: Escape while selecting returns to navigating and changes no entry of
\* the Value Map, whatever Up/Down presses came before.
C8_SelectEscapeKeepsValues ==
    [][KeyIn("selectingOption", "escape") =>
          /\ values' = values
          /\ editingField' = Null /\ selectingField' = Null]_vars

\* A selection has just been cancelled on a field that still holds no value.
C8_Witness ==
    /\ lastEvent = [key |-> "escape", mode |-> "selectingOption"]
    /\ Mode = "navigating"
    /\ values[activeFieldName] = <<>>

\* C9: while selecting, selectionIndex stays within [0, optionCount - 1]; Up
\* moves it one option back and Down one option forward, except at the first
\* and last option where it stays (no wraparound).
C9_SelectionIndexInRange ==
    [][/\ selectingField' # Null =>
            /\ 0 <= selectedOptionIndex'
            /\ selectedOptionIndex' < Len(OptionsOf(selectingField'))
       /\ KeyIn("selectingOption", "up") =>
            selectedOptionIndex' = IF selectedOptionIndex = 0
                                   THEN 0 ELSE selectedOptionIndex - 1
       /\ KeyIn("selectingOption", "down") =>
            selectedOptionIndex' =
                IF selectedOptionIndex = Len(OptionsOf(selectingField)) - 1
                THEN selectedOptionIndex ELSE selectedOptionIndex + 1]_vars

\* As many Down presses as the field has options have been handled in one
\* selection, so the last of them was pressed on the last option.
C9_Witness ==
    /\ selectingField # Null
    /\ Len(presses) = Len(OptionsOf(selectingField))
    /\ \A k \in 1..Len(presses) : presses[k] = "down"
    /\ selectedOptionIndex = Len(OptionsOf(selectingField)) - 1

\* C10: in navigating mode, with no predicate or a predicate that returns
\* true, the submit combination sets status to done and resolves with the
\* current Value Map, one entry per declared field; a supplied predicate is
\* called with that same map.
C10_SubmitResolvesWithValues ==
    [][KeyIn("navigating", "ctrl_s") =>
          /\ validate # "none" =>
                /\ Len(validateCall') = 1
                /\ validateCall'[1].arg = values
          /\ (\/ validate = "none"
              \/ /\ validateCall'[1].ret.type = "boolean"
                 /\ validateCall'[1].ret.bool) =>
                /\ status' = "done"
                /\ answer' = <<values>>
                /\ DOMAIN answer'[1] = {fieldNames[i] : i \in 1..fieldCount}]_vars

\* The prompt has resolved, after a predicate returned true, with a map that
\* holds a committed value differing from the initial one.
C10_Witness ==
    /\ status = "done"
    /\ Len(answer) = 1
    /\ answer[1] = values
    /\ answer[1] # initialValues
    /\ Len(validateCall) = 1
    /\ validateCall[1].ret.type = "boolean"

\* The result the predicate returned in the step just taken.
Returned == validateCall'[1].ret

\* C11: a submit attempt on which the predicate returns a non-empty string
\* sets errorMessage to that string, one on which it returns false sets it to
\* "Invalid values provided"; either way status is idle afterwards and the
\* attempt does not resolve the promise.
C11_FailedSubmitSetsError ==
    [][(KeyIn("navigating", "ctrl_s") /\ Len(validateCall') = 1) =>
          /\ (Returned.type = "string" /\ Returned.str # "") =>
                /\ errorMsg' = Returned.str
                /\ status' = "idle"
                /\ answer' = <<>>
          /\ (Returned.type = "boolean" /\ ~Returned.bool) =>
                /\ errorMsg' = "Invalid values provided"
                /\ status' = "idle"
                /\ answer' = <<>>]_vars

\* The predicate has just returned false and the fallback text is the error.
C11_Witness ==
    /\ lastEvent = [key |-> "ctrl_s", mode |-> "navigating"]
    /\ Len(validateCall) = 1
    /\ validateCall[1].ret.type = "boolean"
    /\ ~validateCall[1].ret.bool
    /\ errorMsg = "Invalid values provided"
    /\ status = "idle"

\* C12: a failed submit attempt leaves the Value Map, activeIndex and the
\* navigating mode as they were and the prompt unresolved; a later submit on
\* which the predicate accepts the values resolves with the Value Map of
\* that moment.
C12_FailedSubmitKeepsPromptInteractive ==
    [][(KeyIn("navigating", "ctrl_s") /\ Len(validateCall') = 1) =>
          /\ (Returned.type = "string" \/ (Returned.type = "boolean" /\ ~Returned.bool)) =>
                /\ values' = values
                /\ activeFieldIndex' = activeFieldIndex
                /\ Mode' = "navigating"
                /\ status' # "done"
                /\ answer' = <<>>
          /\ (errorMsg # Null /\ Returned.type = "boolean" /\ Returned.bool) =>
                /\ status' = "done"
                /\ answer' = <<values>>]_vars

\* The prompt has resolved with a value for the first field after an earlier
\* attempt was rejected because that field was empty.
C12_Witness ==
    /\ validate = "required"
    /\ status = "done"
    /\ errorMsg = RequiredMessage
    /\ answer = <<values>>
    /\ values[FieldName(1)] # <<>>

\* C13: only the submit combination pressed in navigating mode submits: no
\* other key, and no key in editingText or selectingOption, calls the
\* predicate, changes status or resolves the promise.
C13_SubmitOnlyFromNavigating ==
    [][(Mode # "navigating" \/ lastEvent'.key # "ctrl_s") =>
          /\ status' = status
          /\ answer' = answer
          /\ validateCall' = <<>>]_vars

\* The submit combination has just been pressed during an edit.
C13_Witness ==
    /\ lastEvent = [key |-> "ctrl_s", mode |-> "editingText"]
    /\ Mode = "editingText"
    /\ status = "idle"
    /\ answer = <<>>

\* C14: the field in selectingOption mode has a non-empty option list and
\* the field in editingText mode has an absent or empty one.
C14_ModeAgreesWithFieldKind ==
    /\ selectingField # Null =>
          /\ FieldOf(selectingField).hasOptions
          /\ Len(FieldOf(selectingField).options) >= 1
    /\ editingField # Null =>
          Len(FieldOf(editingField).options) = 0

\* A field declared with an empty option list is being edited as text.
C14_Witness ==
    /\ editingField # Null
    /\ FieldOf(editingField).hasOptions
    /\ FieldOf(editingField).options = <<>>
    /\ lastEvent = [key |-> "enter", mode |-> "navigating"]

\* C15: before any key event the mode is navigating, activeIndex is 0, status
\* is idle, there is no errorMessage and every declared field maps to its
\* declared initial value, or to the empty string when none is declared.
C15_InitialState ==
    lastEvent.key = Null =>
        /\ Mode = "navigating"
        /\ activeFieldIndex = 0
        /\ status = "idle"
        /\ errorMsg = Null
        /\ DOMAIN values = {FieldName(i) : i \in 1..Len(fields)}
        /\ \A i \in 1..Len(fields) :
              values[FieldName(i)] =
                  IF fields[i].hasInitial THEN fields[i].initial ELSE <<>>

\* The prompt has just started with one field that declares an initial value
\* and one that does not.
C15_Witness ==
    /\ lastEvent.key = Null
    /\ \E i, j \in 1..Len(fields) :
          /\ fields[i].hasInitial /\ values[FieldName(i)] # <<>>
          /\ ~fields[j].hasInitial /\ values[FieldName(j)] = <<>>

\* C16: the Value Map always has exactly the declared fields as its keys; it
\* changes only on Enter in editingText(f) or selectingOption(f), and then
\* in no entry other than that of f.
C16_ValuesChangeOnlyOnCommit ==
    [][/\ DOMAIN values' = {FieldName(i) : i \in 1..Len(fields)}
       /\ values' # values =>
            /\ lastEvent'.key = "enter"
            /\ Mode \in {"editingText", "selectingOption"}
            /\ \A g \in DOMAIN values :
                  g # (IF Mode = "editingText" THEN editingField ELSE selectingField)
                      => values'[g] = values[g]]_vars

\* An edit has just been committed to one of several fields, changing its
\* value, while another field holds a value.
C16_Witness ==
    /\ Len(fields) >= 2
    /\ lastEvent = [key |-> "enter", mode |-> "editingText"]
    /\ values[activeFieldName] # initialValues[activeFieldName]
    /\ \E g \in DOMAIN values : g # activeFieldName /\ values[g] # <<>>

\* C17: Enter in navigating on a select field enters selectingOption for that
\* field at the position of the first option whose stored value is the
\* field's current value, or at 0 when no option matches, and leaves the
\* Value Map as it was.
C17_EnterOpensSelection ==
    [][(/\ KeyIn("navigating", "enter")
        /\ Len(fields[activeFieldIndex + 1].options) >= 1) =>
          LET f == FieldName(activeFieldIndex + 1)
          IN  /\ selectingField' = f
              /\ editingField' = Null
              /\ selectedOptionIndex' = OpeningIndex(OptionsOf(f), values[f])
              /\ values' = values]_vars

\* A selection has just opened on the first of two options that both store
\* the field's current value.
C17_Witness ==
    /\ Mode = "selectingOption"
    /\ lastEvent = [key |-> "enter", mode |-> "navigating"]
    /\ selectedOptionIndex >= 1
    /\ \E k \in (selectedOptionIndex + 2)..Len(OptionsOf(selectingField)) :
          OptionsOf(selectingField)[k].value = values[selectingField]

\* C18: Enter in navigating on a text field with committed value v enters
\* editingText with the edit buffer and the line buffer both holding exactly
\* v and both cursors at the end of v, whatever was typed before.
C18_EnterSeedsEdit ==
    [][(/\ KeyIn("navigating", "enter")
        /\ Len(fields[activeFieldIndex + 1].options) = 0) =>
          LET f == FieldName(activeFieldIndex + 1)
          IN  /\ editingField' = f
              /\ selectingField' = Null
              /\ fieldInput' = values[f]
              /\ cursorPosition' = Len(values[f])
              /\ rl'.line = values[f]
              /\ rl'.cursor = Len(values[f])]_vars

\* An edit has just been entered on a field whose committed value is no
\* longer its initial value.
C18_Witness ==
    /\ Mode = "editingText"
    /\ lastEvent = [key |-> "enter", mode |-> "navigating"]
    /\ values[editingField] # <<>>
    /\ values[editingField] # initialValues[editingField]
    /\ rl.line = values[editingField]

\* C19: in editingText, after every key other than Enter and Escape the edit
\* buffer's text is the line buffer's text and its cursor offset is the line
\* buffer's cursor offset.
C19_EditBufferResynchronized ==
    [][(/\ Mode = "editingText"
        /\ lastEvent'.mode = "editingText"
        /\ lastEvent'.key \notin {"enter", "escape"}) =>
          /\ fieldInput' = rl'.line
          /\ cursorPosition' = rl'.cursor]_vars

\* C20: errorMessage changes only in a failed submit attempt, which sets it
\* to the returned message or the fallback; no other key event changes it.
C20_ErrorIsSticky ==
    [][errorMsg' # errorMsg =>
          /\ KeyIn("navigating", "ctrl_s")
          /\ Len(validateCall') = 1
          /\ \/ Returned.type \in {"string", "promise"}
             \/ Returned.type = "boolean" /\ ~Returned.bool
          /\ status' = "idle"]_vars

\* A selection has just been cancelled while the error of an earlier failed
\* submit is still set.
C20_Witness ==
    /\ errorMsg # Null
    /\ lastEvent = [key |-> "escape", mode |-> "selectingOption"]
    /\ Mode = "navigating"

\* C21: a submit attempt that passes validation clears errorMessage, so that
\* after a failed attempt followed by a successful one errorMessage is absent
\* and the final frame has no error line.
C21_SuccessfulSubmitClearsError ==
    [][(KeyIn("navigating", "ctrl_s") /\ status' = "done") =>
          /\ errorMsg' = Null
          /\ error' = <<>>]_vars

C24_AsyncPredicateSupported ==
    [][(/\ KeyIn("navigating", "ctrl_s")
        /\ Len(validateCall') = 1
        /\ Returned.type = "promise") =>
          /\ errorMsg' = errorMsg
          /\ status' # "idle"]_vars

\* The label shown for a field with no value: its message, or its name when
\* it declares none.
LabelOf(i) == IF fields[i].message = <<>> THEN fields[i].name ELSE fields[i].message

\* The beginnings of the fragments a theme renders as active.
ActiveOpenings(theme) == {theme.activeField.pre, theme.activePlaceholder.pre}

\* C28: the display fragment of each field is chosen by priority: the field
\* being edited shows the edit buffer with a cursor marker and no theme
\* style; else the field in select mode shows its value, or its label when
\* empty, with the selecting emphasis; else a non-empty value takes the
\* activeField style iff the field is at activeIndex in navigating mode and
\* the field style otherwise; else the label takes activePlaceholder under
\* the same condition and placeholder otherwise.  So at most one field is
\* rendered active, and none while a field is edited or selected.
C28_FragmentByPriority ==
    \A theme \in Themes :
      /\ \A i \in 1..fieldCount :
            LET f == FieldName(i)
                v == values[f]
                atFocus == i - 1 = activeFieldIndex /\ Mode = "navigating"
            IN  displayValue(theme, i - 1) =
                  IF editingField = f
                  THEN IF fieldInput = <<>> THEN <<Inverse, " ", InverseOff>>
                       ELSE SubSeq(fieldInput, 1, cursorPosition)
                              \o <<Inverse>>
                              \o (IF cursorPosition < Len(fieldInput)
                                  THEN <<fieldInput[cursorPosition + 1]>> ELSE <<" ">>)
                              \o <<InverseOff>>
                              \o SubSeq(fieldInput, cursorPosition + 2, Len(fieldInput))
                  ELSE IF selectingField = f
                  THEN IF v # <<>> THEN <<Inverse>> \o v \o <<InverseOff>>
                       ELSE <<Inverse, Dim>> \o LabelOf(i) \o <<DimOff, InverseOff>>
                  ELSE IF v # <<>>
                  THEN IF atFocus THEN theme.activeField.pre \o v \o theme.activeField.post
                       ELSE theme.field.pre \o v \o theme.field.post
                  ELSE IF atFocus
                       THEN theme.activePlaceholder.pre \o LabelOf(i)
                              \o theme.activePlaceholder.post
                       ELSE theme.placeholder.pre \o LabelOf(i) \o theme.placeholder.post
      /\ theme = customTheme =>
            LET active == {i \in 1..fieldCount :
                             \E pre \in ActiveOpenings(theme) :
                                SubSeq(displayValue(theme, i - 1), 1, Len(pre)) = pre}
            IN  /\ Cardinality(active) <= 1
                /\ Mode # "navigating" => active = {}

\* In navigating mode the focus is on the second of several fields, which
\* holds no value and declares no label, while the first holds a value.
C28_Witness ==
    /\ fieldCount >= 2
    /\ Mode = "navigating"
    /\ activeFieldIndex = 1
    /\ values[FieldName(2)] = <<>>
    /\ fields[2].message = <<>>
    /\ values[FieldName(1)] # <<>>
    /\ displayValue(snippetTheme, 1) = <<Inverse, Dim>> \o fields[2].name \o <<DimOff, InverseOff>>

\* C30: the options list is in the frame exactly in selectingOption mode;
\* it then has one line per declared option, in declared order and with no
\* option dropped, each showing the option's display name (a bare string is
\* its own name), and the marker is on the line at selectionIndex and on no
\* other line.
C30_OptionsListWhileSelecting ==
    /\ Mode # "selectingOption" => (optionLines = <<>> /\ renderSelectOptions = <<>>)
    /\ Mode = "selectingOption" =>
          LET declared == FieldOf(selectingField).options
              shown(k) == IF declared[k].isString THEN declared[k].str
                          ELSE declared[k].name
          IN  /\ Len(optionLines) = Len(declared)
              /\ renderSelectOptions # <<>>
              /\ \A k \in 1..Len(declared) :
                    optionLines[k] =
                        IF k - 1 = selectedOptionIndex
                        THEN <<Pointer, " ", Inverse>> \o shown(k) \o <<InverseOff>>
                        ELSE <<" ", " ">> \o shown(k)
              /\ Cardinality({k \in 1..Len(optionLines) :
                                 optionLines[k][1] = Pointer}) = 1

\* The selection is on the second of three listed options, two of which
\* show the same display name and one of which stores another value than
\* it shows.
C30_Witness ==
    /\ Mode = "selectingOption"
    /\ selectedOptionIndex = 1
    /\ Len(optionLines) = 3
    /\ optionLines[1] = <<" ", " ">> \o OptionsOf(selectingField)[1].name
    /\ OptionsOf(selectingField)[1].name = OptionsOf(selectingField)[2].name
    /\ OptionsOf(selectingField)[2].name # OptionsOf(selectingField)[2].value

\* ------------------------------------------------- renderer claims (C25-C29)
\* text contains sub as a contiguous run
Contains(text, sub) ==
    \E i \in 1..(Len(text) - Len(sub) + 1) : SubSeq(text, i, i + Len(sub) - 1) = sub

\* text with every literal occurrence of token, taken leftmost, replaced by
\* fragment, character for character
RECURSIVE LiteralReplace(_, _, _, _)
LiteralReplace(text, token, fragment, i) ==
    IF i > Len(text) THEN <<>>
    ELSE IF i + Len(token) - 1 <= Len(text) /\ SubSeq(text, i, i + Len(token) - 1) = token
    THEN fragment \o LiteralReplace(text, token, fragment, i + Len(token))
    ELSE <<text[i]>> \o LiteralReplace(text, token, fragment, i + 1)

\* The fields in declaration order, each replacing the literal occurrences
\* of its token by its one display fragment.
RECURSIVE LiteralRender(_, _, _)
LiteralRender(theme, rendered, index) ==
    IF index >= Len(fields) THEN rendered
    ELSE LiteralRender(theme,
                       LiteralReplace(rendered, placeholder(fields[index + 1].name),
                                      displayValue(theme, index), 1),
                       index + 1)

\* C25: in one render pass every occurrence of a declared field's token is
\* replaced, all occurrences of one field's token by the identical display
\* fragment of that field, and no token of the template is left.
C25_EveryOccurrenceSameFragment ==
    \A theme \in Themes :
        /\ renderSnippet(theme) = LiteralRender(theme, template, 0)
        /\ (Len(fields) = 1 /\ ~Contains(displayValue(theme, 0), placeholder(fields[1].name)))
              => ~Contains(renderSnippet(theme), placeholder(fields[1].name))

\* The pieces of the template between the occurrences of a declared field's
\* token, in order.
DeclaredTokenAt(i) ==
    \E k \in 1..Len(fields) :
        LET token == placeholder(fields[k].name)
        IN  i + Len(token) - 1 <= Len(template)
              /\ SubSeq(template, i, i + Len(token) - 1) = token
TokenLengthAt(i) ==
    Len(placeholder(fields[CHOOSE k \in 1..Len(fields) :
        LET token == placeholder(fields[k].name)
        IN  i + Len(token) - 1 <= Len(template)
              /\ SubSeq(template, i, i + Len(token) - 1) = token].name))
RECURSIVE LiteralPieces(_, _)
LiteralPieces(i, piece) ==
    IF i > Len(template) THEN <<piece>>
    ELSE IF DeclaredTokenAt(i) THEN <<piece>> \o LiteralPieces(i + TokenLengthAt(i), <<>>)
    ELSE LiteralPieces(i + 1, Append(piece, template[i]))

\* text is pieces[1], some text, pieces[2], some text, ..., pieces[n]
RECURSIVE Interleaves(_, _, _)
Interleaves(text, pieces, first) ==
    IF Len(pieces) = 1
    THEN IF first THEN text = pieces[1]
         ELSE Len(pieces[1]) <= Len(text)
                /\ SubSeq(text, Len(text) - Len(pieces[1]) + 1, Len(text)) = pieces[1]
    ELSE \E i \in (IF first THEN {1} ELSE 1..(Len(text) - Len(pieces[1]) + 1)) :
            /\ i + Len(pieces[1]) - 1 <= Len(text)
            /\ SubSeq(text, i, i + Len(pieces[1]) - 1) = pieces[1]
            /\ Interleaves(SubSeq(text, i + Len(pieces[1]), Len(text)), Tail(pieces), FALSE)

\* C26: everything of the template that is not the balanced token of a
\* declared field stays in the output as it is: tokens of undeclared fields,
\* unbalanced forms, and the braces around a token.
C26_OtherTextLeftLiteral ==
    \A theme \in Themes : Interleaves(renderSnippet(theme), LiteralPieces(1, <<>>), TRUE)

\* fieldName has a character that is special in a regular expression
HasMetacharacter(name) == \E i \in 1..Len(name) : name[i] \in RegexSpecials

\* C27: the replacement step of a field whose key has regex metacharacters
\* replaces exactly the occurrences of the field's full token and leaves
\* every other character of the text as it was.
C27_MetacharacterKeyIsLiteral ==
    \A theme \in Themes : \A index \in 0..(Len(fields) - 1) :
        HasMetacharacter(fields[index + 1].name) =>
            replaceField(theme, template, index)
                = LiteralReplace(template, placeholder(fields[index + 1].name),
                                 displayValue(theme, index), 1)

\* a key with a metacharacter is being rendered with a typed value, in a
\* template that holds its token and near-misses of it
C27_Witness ==
    /\ fields = MetaFields
    /\ editingField # Null
    /\ fieldInput # <<>>
    /\ Contains(replaceField(snippetTheme, template, 0), placeholder(<<"a", "x", "+", "b">>))
    /\ ~Contains(replaceField(snippetTheme, template, 0), placeholder(<<"a", ".", "+", "b">>))

\* the frame is rendered for the first time, no key has been pressed
BeforeAnyKey == lastEvent.key = Null /\ status = "idle"

\* The text as the terminal shows it: escape sequences take no cell.
Visible(text) == SelectSeq(text, LAMBDA c : c \notin {Inverse, InverseOff, Dim, DimOff})

\* C29 as stated: the first frame for "Hello {{name}}!" with name "World"
\* holds the characters "Hello World!" one after the other.
C29_FrameHoldsHelloWorld ==
    (fields = HelloFields /\ template = HelloTemplate /\ BeforeAnyKey) =>
        Contains(renderSnippet(snippetTheme), <<"Hello ", "World", "!">>)

\* C29: the first frame for "Hello {{name}}!" with name "World" holds
\* "Hello ", then World in the active-field style, then "!", which reads
\* "Hello World!" on the screen.
C29_FrameShowsHelloWorld ==
    (fields = HelloFields /\ template = HelloTemplate /\ BeforeAnyKey) =>
        /\ renderSnippet(snippetTheme) = <<"Hello ", Inverse, "World", InverseOff, "!">>
        /\ Visible(renderSnippet(snippetTheme)) = <<"Hello ", "World", "!">>

C29_Witness ==
    /\ fields = HelloFields
    /\ template = HelloTemplate
    /\ BeforeAnyKey
    /\ values[fieldNames[1]] = <<"World">>
    /\ isActive(0)

\* ------------------------------------------------------- claims C31 to C40
\* the stored value of an option as it is declared
RawValue(option) == IF option.isString THEN option.str ELSE option.value

\* the options of the field at index (0-based) store pairwise distinct values
DistinctValues(index) ==
    LET raw == fields[index + 1].options
    IN  \A i, j \in 1..Len(raw) : RawValue(raw[i]) = RawValue(raw[j]) => i = j

IndexOfField(f) == (CHOOSE i \in 1..Len(fields) : FieldName(i) = f) - 1

\* C31: for a select field whose options store pairwise distinct values,
\* committing the option at index i stores options[i].value, the template
\* then shows that value, and opening the selection on a field that holds
\* options[i].value places selectionIndex at i.
C31_OptionsRoundTripByValue ==
    /\ [][/\ (/\ KeyIn("selectingOption", "enter")
              /\ DistinctValues(IndexOfField(selectingField))) =>
                LET raw == FieldOf(selectingField).options
                IN  values'[selectingField] = RawValue(raw[selectedOptionIndex + 1])
          /\ (/\ KeyIn("navigating", "enter")
              /\ selectingField' # Null
              /\ DistinctValues(activeFieldIndex)) =>
                LET raw == fields[activeFieldIndex + 1].options
                IN  \A i \in 1..Len(raw) :
                       RawValue(raw[i]) = values[activeFieldName] =>
                           selectedOptionIndex' = i - 1]_vars
    /\ [](/\ lastEvent = [key |-> "enter", mode |-> "selectingOption"]
          /\ DistinctValues(activeFieldIndex)
          => \A theme \in Themes :
                Contains(renderSnippet(theme),
                         style(theme, "activeField", values[activeFieldName])))

\* The selection was reopened on a field that holds the value of its second
\* option, whose display name is that of the first one, and stands on it.
C31_Witness ==
    /\ lastEvent = [key |-> "enter", mode |-> "navigating"]
    /\ selectingField # Null
    /\ DistinctValues(IndexOfField(selectingField))
    /\ LET raw == FieldOf(selectingField).options
       IN  /\ Len(raw) >= 2
           /\ OptionsOf(selectingField)[1].name = OptionsOf(selectingField)[2].name
           /\ values[selectingField] = RawValue(raw[2])
           /\ values[selectingField] # initialValues[selectingField]
           /\ selectedOptionIndex = 1

\* a submit attempt has just been processed and did not resolve the promise
SubmitRejected ==
    /\ lastEvent = [key |-> "ctrl_s", mode |-> "navigating"]
    /\ Len(validateCall) = 1
    /\ answer = <<>>

\* C32: after a submit attempt that does not resolve the promise the frame
\* has an error line, which shows the message the predicate returned or the
\* generic fallback.
C32_FailedValidationIsVisible ==
    SubmitRejected =>
        /\ error # <<>>
        /\ error = <<"style.error",
                     IF validateCall[1].ret.type = "string"
                     THEN validateCall[1].ret.str ELSE InvalidFallback>>

\* C33: the display fragment is inserted literally: the replacement step of
\* every field puts the styled fragment, character for character, at each
\* position of the field's token, whatever the value or label holds.
C33_FragmentInsertedLiterally ==
    \A theme \in Themes : \A index \in 0..(Len(fields) - 1) :
        replaceField(theme, template, index)
            = LiteralReplace(template, placeholder(fields[index + 1].name),
                             displayValue(theme, index), 1)

\* The template rendered in one pass: at every position of the template
\* where the token of a declared field stands, the replacement the code
\* computes for that field; every other character as it is.
FieldWithTokenAt(i) ==
    CHOOSE k \in 1..Len(fields) :
        LET token == placeholder(fields[k].name)
        IN  i + Len(token) - 1 <= Len(template)
              /\ SubSeq(template, i, i + Len(token) - 1) = token
RECURSIVE SinglePass(_, _)
SinglePass(theme, i) ==
    IF i > Len(template) THEN <<>>
    ELSE IF DeclaredTokenAt(i)
    THEN LET k == FieldWithTokenAt(i)
             matchLength == Len(placeholder(fields[k].name))
         IN  getSubstitution(displayValue(theme, k - 1), template, i, matchLength)
                \o SinglePass(theme, i + matchLength)
    ELSE <<template[i]>> \o SinglePass(theme, i + 1)

\* C34: substitution is one pass over the original template: a value or
\* label that spells the token of another declared field is rendered as it
\* is and is not substituted in its turn.
C34_SubstitutionIsSinglePass ==
    \A theme \in Themes : renderSnippet(theme) = SinglePass(theme, 1)

\* C35: while the mode is editingText or selectingOption no key event
\* changes activeIndex; Up, Down and Tab move the focus in navigating only.
C35_FocusFixedOutsideNavigating ==
    [][Mode # "navigating" => activeFieldIndex' = activeFieldIndex]_vars

\* Tab has just been pressed while the second field is edited, and the
\* second field is still the active one.
C35_Witness ==
    /\ lastEvent = [key |-> "tab", mode |-> "editingText"]
    /\ Mode = "editingText"
    /\ Len(fields) >= 2
    /\ activeFieldIndex = 1
    /\ editingField = fieldNames[2]

\* C36: after every processed key event status is idle or done; loading is
\* set and left inside the submit event, whatever the predicate returns.
C36_StatusIdleOrDone ==
    status \in {"idle", "done"}

\* A submit attempt has just been processed on which the predicate returned
\* a promise that is still pending, and status is idle again.
C36_Witness ==
    /\ lastEvent = [key |-> "ctrl_s", mode |-> "navigating"]
    /\ Len(validateCall) = 1
    /\ validateCall[1].ret.type = "promise"
    /\ status = "idle"

\* a field declared with a list of at least one option
HasOptionList(i) == fields[i].options # <<>>

\* C37: the value of a select field is its initial value (the empty string
\* without one) or the stored value of one of its declared options.
C37_SelectValueIsInitialOrOption ==
    \A i \in 1..Len(fields) :
        HasOptionList(i) =>
            \/ values[FieldName(i)] = fields[i].initial
            \/ \E k \in 1..Len(fields[i].options) :
                  values[FieldName(i)] = RawValue(fields[i].options[k])

\* Characters are typed while the selection is open on a field that holds
\* an option value stored by an earlier selection: they reach the line
\* buffer, not the field.
C37_Witness ==
    /\ lastEvent = [key |-> "other", mode |-> "selectingOption"]
    /\ selectingField # Null
    /\ rl.line # <<>>
    /\ values[selectingField] # initialValues[selectingField]
    /\ \E k \in 1..Len(FieldOf(selectingField).options) :
          values[selectingField] = RawValue(FieldOf(selectingField).options[k])

\* the predicate returned exactly true
ReturnedTrue == Returned.type = "boolean" /\ Returned.bool

\* C38: with a predicate supplied, a submit attempt resolves the promise
\* only if the predicate returned exactly true; on every other return
\* (false, a string, the empty string, no value) status is idle afterwards
\* and the promise is not resolved.
C38_OnlyTrueResolves ==
    [][(KeyIn("navigating", "ctrl_s") /\ Len(validateCall') = 1) =>
          /\ (status' = "done" \/ answer' # <<>>) => ReturnedTrue
          /\ (~ReturnedTrue /\ Returned.type # "promise") =>
                status' = "idle" /\ answer' = <<>>]_vars

\* C39: with an empty field set no Up, Down, Tab or Enter key moves
\* activeIndex away from 0 or enters a mode, the frame keeps showing the
\* template as it is, and the submit combination resolves with the empty map.
C39_EmptyFieldSetIsInert ==
    fields = <<>> =>
        /\ activeFieldIndex = 0
        /\ Mode = "navigating"
        /\ \A theme \in Themes : renderSnippet(theme) = template
        /\ lastEvent.key = "ctrl_s" => (status = "done" /\ answer = <<initialValues>>)

\* ----------------------------------------------------- text-only variant
\* userHandler of the prompt without select support, for one key: the
\* readline interface handles the key, then the handler takes the editing or
\* the navigation branch.  isValid is what config.validate returned when
\* the handler called it.
textOnlyHandler(key, isValid) ==
    IF editingField # Null
    THEN IF key = "enter"
         THEN /\ values' = withValue(values, editingField, fieldInput)
              /\ editingField' = Null
              /\ fieldInput' = <<>>
              /\ cursorPosition' = 0
              /\ rl' = insertString(ttyWrite(rl, key), <<>>)
              /\ UNCHANGED <<status, errorMsg, activeFieldIndex, answer>>
         ELSE IF key = "escape"
         THEN /\ editingField' = Null
              /\ fieldInput' = <<>>
              /\ cursorPosition' = 0
              /\ rl' = insertString(ttyWrite(rl, key), <<>>)
              /\ UNCHANGED <<status, errorMsg, values, activeFieldIndex, answer>>
         ELSE /\ rl' = ttyWrite(rl, key)
              /\ fieldInput' = rl'.line
              /\ cursorPosition' = Len(rl'.line)
              /\ UNCHANGED <<status, errorMsg, values, activeFieldIndex, editingField,
                             answer>>
    ELSE IF key = "ctrl_s"
         THEN /\ rl' = ttyWrite(rl, key)
              /\ IF validate = "none" \/ Passes(isValid)
                 THEN /\ status' = "done"
                      /\ answer' = Append(answer, values)
                      /\ UNCHANGED errorMsg
                 ELSE /\ errorMsg' = errorText(isValid)
                      /\ status' = "idle"
                      /\ UNCHANGED answer
              /\ UNCHANGED <<values, activeFieldIndex, editingField, fieldInput,
                             cursorPosition>>
         ELSE IF key = "enter"
         THEN /\ IF activeFieldName # Null
                 THEN /\ editingField' = activeFieldName
                      /\ fieldInput' = currentValueOf(activeFieldName)
                      /\ cursorPosition' = Len(currentValueOf(activeFieldName))
                      /\ rl' = insertString(ttyWrite(rl, key),
                                            currentValueOf(activeFieldName))
                 ELSE /\ rl' = ttyWrite(rl, key)
                      /\ UNCHANGED <<editingField, fieldInput, cursorPosition>>
              /\ UNCHANGED <<status, errorMsg, values, activeFieldIndex, answer>>
         ELSE /\ rl' = ttyWrite(rl, key)
              /\ activeFieldIndex' =
                    CASE key = "up" -> prevField(activeFieldIndex)
                      [] key = "down" -> nextField(activeFieldIndex, Len(fieldNames))
                      [] key = "tab" -> tabField(activeFieldIndex, Len(fieldNames))
                      [] OTHER -> activeFieldIndex
              /\ UNCHANGED <<status, errorMsg, values, editingField, fieldInput,
                             cursorPosition, answer>>

\* no field is declared with a non-empty list of options
NoOptionLists == \A i \in 1..Len(fields) : fields[i].options = <<>>

\* C40: in a configuration without a non-empty option list every key event
\* takes the select-capable prompt to the state the text-only variant
\* reaches from the same state on the same key and the same return of the
\* predicate: the same activeIndex, editing field, edit buffer, Value Map,
\* status, errorMessage and resolved value, with no selection ever open.
C40_TextOnlyVariantEquivalent ==
    [][NoOptionLists =>
          /\ selectingField' = Null
          /\ selectedOptionIndex' = 0
          /\ \E key \in Keys :
                /\ Deliver(key)
                /\ textOnlyHandler(key, IF Len(validateCall') = 1 THEN Returned
                                        ELSE [type |-> "undefined", bool |-> FALSE,
                                              str |-> ""])]_vars

\* With two text fields, one of them declared with `options: []`, the prompt
\* has resolved from the second field after a rejected attempt and an edit
\* of the first field.
C40_Witness ==
    /\ NoOptionLists
    /\ Len(fields) = 2
    /\ \E i \in 1..2 : fields[i].hasOptions
    /\ activeFieldIndex = 1
    /\ errorMsg # Null
    /\ status = "done"
    /\ answer = <<values>>
    /\ values # initialValues

====
